---- MODULE Spec2Model ----
(***************************************************************************)
(* EasyMusic build scripts: scripts/build-spotdl.py (virtual environment   *)
(* with spotdl and a wrapper script) and scripts/build-spotdl-pyinstaller  *)
(* .py (standalone executable built with PyInstaller).                     *)
(*                                                                         *)
(* Each script is one sequential process.  The external world (the         *)
(* interpreters on PATH, the child processes, the file system, the user    *)
(* pressing Ctrl-C) is the nondeterminism of the model: every blocking     *)
(* call draws its outcome from the outcomes subprocess.run can have.       *)
(***************************************************************************)
EXTENDS Integers, Sequences, FiniteSets, TLC

VARIABLES
    script,          \* which script this process runs
    pc,              \* position of the process in the script
    probes,          \* what each interpreter candidate answers to --version
    resolution,      \* what check_python_version returned (or raised)
    python_cmd,      \* main: python_cmd
    env_exists,      \* file system: directory spotdl_env exists
    env_bin,         \* file system: files present in spotdl_env/bin
    wrapper,         \* file system: spotdl_env/spotdl_wrapper.py
    entry_exists,    \* file system: spotdl_entry.py exists
    artifact,        \* file system: binaries/spotdl/spotdl
    artifact_empty,  \* file system: binaries/spotdl/spotdl has size 0
    artifact_exec,   \* file system: binaries/spotdl/spotdl has its executable bits
    tool_files,      \* file system: which of build/ and spotdl.spec exist
    venv_python,     \* main: venv_python (file name inside spotdl_env/bin)
    venv_pip,        \* main: venv_pip (file name inside spotdl_env/bin)
    idx,             \* loop index of the running for loop (0-based, as in the code)
    installed,       \* spotdl_installed: the install of spotdl succeeded
    cmds,            \* every command handed to run_command, with its result
    raised,          \* the exception that left the last blocking call, if any
    symlink,         \* outcome of the os.symlink call, if it was made
    system,          \* platform.system().lower() of the host
    machine,         \* platform.machine().lower() of the host
    ytdlp_dir,       \* file system: names of the files in binaries/ytdlp
    binary_name,     \* download_binary: binary_name
    urlopened,       \* urllib.request.urlopen was called
    downloaded,      \* how much of download_path this run wrote
    verified,        \* verify_binary: the file invoked with --version
    runs,            \* exit statuses of the earlier runs in this directory
    ci_vars,         \* os.environ: the CI indicator variables that are set
    ci_log,          \* what check_ci_environment printed
    exit_code        \* status passed to sys.exit, NotExited while running

vars == <<script, pc, probes, resolution, python_cmd, env_exists, env_bin,
          wrapper, entry_exists, artifact, artifact_empty, artifact_exec,
          tool_files, venv_python, venv_pip, idx, installed, cmds, raised, symlink,
          system, machine, ytdlp_dir, binary_name, urlopened, downloaded,
          verified, runs, ci_vars, ci_log, exit_code>>

\* what only the packaging step of build-spotdl-pyinstaller.py writes
pyiDisk == <<artifact_empty, artifact_exec, tool_files>>

\* what only check_ci_environment of build-spotdl.py reads and writes
ciVars == <<ci_vars, ci_log>>

\* what only build-ytdlp-pyinstaller.py reads and writes
fetchVars == <<system, machine, ytdlp_dir, binary_name, urlopened, downloaded,
               verified>>

\* what only the two build scripts read and write
buildVars == <<probes, resolution, python_cmd, env_exists, env_bin, wrapper,
               entry_exists, artifact, pyiDisk, venv_python, venv_pip, idx,
               installed, symlink>>

----------------------------------------------------------------------------
(* Names *)

SPOTDL == "build-spotdl.py"
PYINSTALLER == "build-spotdl-pyinstaller.py"
Scripts == {SPOTDL, PYINSTALLER}

None == "None"
NotExited == "running"

\* build-spotdl.py: python_cmds
SpotdlPythonCmds == <<"python", "python3.11", "python3.10">>

\* build-spotdl-pyinstaller.py: python_cmds
PyiPythonCmds == <<"python3.11", "python3.10", "python3.9", "python3.8", "python3">>

PythonCmds(s) == IF s = SPOTDL THEN SpotdlPythonCmds ELSE PyiPythonCmds

\* the minor version each script requires ("minor >= 10", "minor >= 8")
SpotdlMinMinor == 10
PyiMinMinor == 8
MinMinor(s) == IF s = SPOTDL THEN SpotdlMinMinor ELSE PyiMinMinor

----------------------------------------------------------------------------
(* The output of "<candidate> --version".                                  *)
(* stdout is modelled as what str.split() makes of it: a sequence of       *)
(* words, each word being what split('.') makes of it: a sequence of       *)
(* components.  A component is the integer int() reads from it, or         *)
(* NotANumber when int() raises ValueError on it.                          *)

NotANumber == -1

Label == <<NotANumber>>          \* the word "Python"

\* the largest major version a candidate reports
MaxMajor == 4

\* versions an interpreter on PATH may report: below both minimums, between
\* them, at and above the higher one, and the majors after 3 with a minor
\* below and above the minimums
Versions == { <<2, 7, 18>>, <<3, 7, 9>>, <<3, 9, 7>>, <<3, 10, 2>>, <<3, 11, 4>> }
            \cup { <<m, 0, 0>> : m \in 4..MaxMajor }
            \cup { <<m, 12, 0>> : m \in 4..MaxMajor }

Stdouts ==
    { <<>>,                               \* nothing on stdout (Python 2 writes to stderr)
      <<Label>>,                          \* "Python"
      <<Label, <<3>>>>,                   \* "Python 3"
      <<Label, <<3, NotANumber>>>> }      \* "Python 3.11rc1"
    \cup { <<Label, v>> : v \in Versions }

\* one probe: subprocess.run([cmd, "--version"], capture_output, timeout=5)
ProbeResults ==
    { [kind |-> k, returncode |-> 0, stdout |-> <<>>] :
          k \in {"FileNotFoundError", "TimeoutExpired", "KeyboardInterrupt"} }
    \cup { [kind |-> "completed", returncode |-> 1, stdout |-> <<>>] }
    \cup { [kind |-> "completed", returncode |-> 0, stdout |-> s] : s \in Stdouts }

NoResult == [kind |-> None, returncode |-> 0, stdout |-> <<>>]

Assignments(s) == [1..Len(PythonCmds(s)) -> ProbeResults]

----------------------------------------------------------------------------
(* Version parsing, shared by both check_python_version functions.         *)

\* parts = version_output.split(); version_parts = parts[1].split('.');
\* major = int(version_parts[0]); minor = int(version_parts[1])
ParseVersion(stdout) ==
    IF Len(stdout) = 0 THEN [status |-> "empty", major |-> 0, minor |-> 0]
    ELSE IF Len(stdout) < 2 THEN [status |-> "invalid", major |-> 0, minor |-> 0]
    ELSE LET version_parts == stdout[2] IN
         IF Len(version_parts) < 2
         THEN [status |-> "invalid", major |-> 0, minor |-> 0]
         ELSE IF version_parts[1] = NotANumber \/ version_parts[2] = NotANumber
         THEN [status |-> "ValueError", major |-> 0, minor |-> 0]
         ELSE [status |-> "ok", major |-> version_parts[1],
               minor |-> version_parts[2]]

\* faulty variant: "or" in the place of "and"
VersionAcceptedEither(major, minor, min_minor) == major >= 3 \/ minor >= min_minor

\* if major >= 3 and minor >= MIN
VersionAccepted(major, minor, min_minor) == major >= 3 /\ minor >= min_minor

\* what a check_python_version call hands back to main
Resolved(cmd, n) == [cmd |-> cmd, exc |-> None, probed |-> n]
NotResolved(n) == [cmd |-> None, exc |-> None, probed |-> n]
ResolverRaised(e, n) == [cmd |-> None, exc |-> e, probed |-> n]

----------------------------------------------------------------------------
(* build-spotdl.py: check_python_version                                   *)

\* the for loop: the first candidate that exits zero ends it
RECURSIVE SpotdlProbeLoop(_, _, _)
SpotdlProbeLoop(p, i, result) ==
    IF i > Len(p) THEN [exc |-> None, result |-> result, cmd |-> None, probed |-> i - 1]
    ELSE LET r == p[i] IN
         IF r.kind = "FileNotFoundError" THEN SpotdlProbeLoop(p, i + 1, result)
         ELSE IF r.kind # "completed"
         THEN [exc |-> r.kind, result |-> result, cmd |-> None, probed |-> i]
         ELSE IF r.returncode = 0
         THEN [exc |-> None, result |-> r, cmd |-> SpotdlPythonCmds[i], probed |-> i]
         ELSE SpotdlProbeLoop(p, i + 1, r)

\* the code after the loop, and the except clauses of the function
SpotdlAfterLoop(l) ==
    IF l.exc = "KeyboardInterrupt" THEN ResolverRaised(l.exc, l.probed)
    ELSE IF l.exc = "TimeoutExpired" THEN NotResolved(l.probed)
    ELSE IF l.result.kind = None \/ l.result.returncode # 0 THEN NotResolved(l.probed)
    ELSE LET v == ParseVersion(l.result.stdout) IN
         IF v.status # "ok" THEN NotResolved(l.probed)
         ELSE IF VersionAccepted(v.major, v.minor, SpotdlMinMinor)
         THEN Resolved(l.cmd, l.probed)
         ELSE NotResolved(l.probed)

SpotdlCheckPythonVersion(p) == SpotdlAfterLoop(SpotdlProbeLoop(p, 1, NoResult))

----------------------------------------------------------------------------
(* build-spotdl-pyinstaller.py: check_python_version                       *)

\* one iteration of the for loop: "return" or "continue" or an exception
PyiProbe(r) ==
    IF r.kind = "FileNotFoundError" THEN "continue"
    ELSE IF r.kind # "completed" THEN r.kind
    ELSE IF r.returncode # 0 THEN "continue"
    ELSE LET v == ParseVersion(r.stdout) IN
         IF v.status # "ok" THEN "continue"
         ELSE IF VersionAccepted(v.major, v.minor, PyiMinMinor) THEN "return"
         ELSE "continue"

RECURSIVE PyiProbeLoop(_, _)
PyiProbeLoop(p, i) ==
    IF i > Len(p) THEN NotResolved(i - 1)
    ELSE LET step == PyiProbe(p[i]) IN
         IF step = "return" THEN Resolved(PyiPythonCmds[i], i)
         ELSE IF step = "continue" THEN PyiProbeLoop(p, i + 1)
         ELSE IF step = "KeyboardInterrupt" THEN ResolverRaised(step, i)
         ELSE NotResolved(i)     \* except Exception: return None

PyiCheckPythonVersion(p) == PyiProbeLoop(p, 1)

CheckPythonVersion(s, p) ==
    IF s = SPOTDL THEN SpotdlCheckPythonVersion(p) ELSE PyiCheckPythonVersion(p)

----------------------------------------------------------------------------
(* run_command and the exit status                                         *)

\* what the child process of a run_command call can do
ChildOutcomes == {"exit0", "nonzero", "TimeoutExpired", "OSError", "KeyboardInterrupt"}

\* run_command: (success, output), or the exception it lets through.
\* KeyboardInterrupt is no Exception, so "except Exception" does not catch it.
RunCommand(o) ==
    IF o = "KeyboardInterrupt" THEN [success |-> FALSE, exc |-> o]
    ELSE [success |-> (o = "exit0"), exc |-> None]

\* how a run_command call is written to the command log
Logged(rc) == IF rc.exc # None THEN rc.exc ELSE IF rc.success THEN "ok" ELSE "failed"

\* the __main__ block: sys.exit(0), sys.exit(1), sys.exit(130)
\* faulty variant: a False from main is reported as success
ExitStatusHidesFailure(outcome) ==
    IF outcome = "KeyboardInterrupt" THEN 130 ELSE 0
\* the __main__ block as written
ExitStatus(outcome) ==
    IF outcome = "True" THEN 0
    ELSE IF outcome = "False" THEN 1
    ELSE IF outcome = "KeyboardInterrupt" THEN 130
    ELSE 1

\* an exception raised inside the build steps of main: build-spotdl.py wraps
\* them in try/except and returns False, build-spotdl-pyinstaller.py has no
\* handler in main and the exception reaches the __main__ block
BuildStepRaised(s, e) == IF s = SPOTDL THEN "False" ELSE e

NoException == [exc |-> None, at |-> None]

Exit(outcome) ==
    /\ pc' = "exited"
    /\ exit_code' = ExitStatus(outcome)

Issue(cmd, rc) == cmds' = Append(cmds, [cmd |-> cmd, result |-> Logged(rc)])

----------------------------------------------------------------------------
(* File system.  A file this run wrote is "fresh", one that was there       *)
(* before the run started is "stale".                                      *)

BinFiles == {"python3", "python", "pip3", "pip"}

\* faulty variant: the first name is taken without looking at the disk
ProbePathAssumed(bin, first, second) == first

\* os.path.join(venv_bin_dir, first) if it exists, else the second name
ProbePath(bin, first, second) == IF first \in bin THEN first ELSE second

\* Path(venv_python).exists()
PathExists(bin, name) == name \in bin

\* shutil.rmtree(spotdl_env): removes the tree, or fails part way with a warning
RmtreeOutcomes ==
    IF ~env_exists THEN {[exists |-> FALSE, bin |-> {}, wrapper |-> "absent"]}
    ELSE {[exists |-> FALSE, bin |-> {}, wrapper |-> "absent"]}
         \cup { [exists |-> TRUE, bin |-> b, wrapper |-> w] :
                    b \in SUBSET env_bin, w \in {wrapper, "absent"} }

\* what an environment creation command leaves in spotdl_env/bin: it adds
\* files, which ones depends on the strategy and on how far it got
CreatedBins == { b \in SUBSET BinFiles : env_bin \subseteq b }

\* what the packaging tool writes beside its output: --workpath build,
\* --specpath . with --name spotdl
ToolFiles == {"build", "spotdl.spec"}

\* build-spotdl-pyinstaller.py removes build/ and spotdl.spec when it starts,
\* a removal that fails being a warning; build-spotdl.py has neither in its
\* lists
RemoveToolFiles(s, present) == IF s = SPOTDL THEN {present} ELSE SUBSET present

\* ci_vars of check_ci_environment
CiIndicators == {"CI", "GITHUB_ACTIONS", "GITLAB_CI", "TRAVIS", "JENKINS_HOME"}

\* a local shell, and a GitHub Actions runner
NoCi == {}
GithubActions == {"CI", "GITHUB_ACTIONS"}

\* what open('/proc/1/cgroup').read() gives: an exception, a text with
\* "docker" in it, another text
Cgroups == {"unreadable", "docker", "other"}

\* faulty variant: the build refuses to run outside CI
CheckCiEnvironmentRequired(env, cgroup) ==
    IF env # {} THEN [exc |-> None, log |-> "ci"]
    ELSE [exc |-> "Exception", log |-> "local"]

\* check_ci_environment(): is_ci = any(os.environ.get(var) for var in
\* ci_vars); it prints and returns None, the bare except swallows whatever
\* reading /proc/1/cgroup raises.  The working directory exists.
CheckCiEnvironment(env, cgroup) ==
    IF env # {}
    THEN [exc |-> None, log |-> IF cgroup = "docker" THEN "ci, docker" ELSE "ci"]
    ELSE [exc |-> None, log |-> "local"]

----------------------------------------------------------------------------
(* Initial states                                                          *)

InitFiles ==
    /\ env_exists \in BOOLEAN
    /\ env_bin \in (IF env_exists THEN SUBSET BinFiles ELSE {{}})
    /\ wrapper \in (IF env_exists /\ script = SPOTDL THEN {"absent", "stale"}
                                                        ELSE {"absent"})
    /\ entry_exists \in (IF script = PYINSTALLER THEN BOOLEAN ELSE {FALSE})
    /\ artifact \in (IF script = PYINSTALLER THEN {"absent", "stale"} ELSE {"absent"})
    /\ artifact_empty \in (IF artifact = "absent" THEN {FALSE} ELSE BOOLEAN)
    /\ artifact_exec \in (IF artifact = "absent" THEN {FALSE} ELSE BOOLEAN)
    /\ tool_files \in (IF script = PYINSTALLER THEN SUBSET ToolFiles ELSE {{}})

\* nothing of build-ytdlp-pyinstaller.py has happened
NoFetch ==
    /\ system = None
    /\ machine = None
    /\ ytdlp_dir = {}
    /\ binary_name = None
    /\ urlopened = FALSE
    /\ downloaded = "nothing"
    /\ verified = None

InitLocals ==
    /\ resolution = NotResolved(0)
    /\ python_cmd = None
    /\ venv_python = None
    /\ venv_pip = None
    /\ idx = 0
    /\ installed = FALSE
    /\ cmds = <<>>
    /\ raised = NoException
    /\ symlink = None
    /\ runs = <<>>
    /\ ci_log = None
    /\ exit_code = NotExited

InitProcess ==
    /\ pc = "start"
    /\ InitLocals

Init ==
    /\ script \in Scripts
    /\ probes = <<>>
    /\ ci_vars \in (IF script = SPOTDL THEN {NoCi, GithubActions} ELSE {NoCi})
    /\ InitFiles
    /\ NoFetch
    /\ InitProcess

----------------------------------------------------------------------------
(* main, both scripts: interpreter resolution and cleanup                  *)

\* python_check_result = check_python_version(); if it failed: return False
AfterResolution(r) ==
    /\ resolution' = r
    /\ IF r.exc # None
       THEN /\ raised' = [exc |-> r.exc, at |-> "probe"]
            /\ Exit(r.exc)
            /\ UNCHANGED python_cmd
       ELSE IF r.cmd = None
       THEN /\ Exit("False")
            /\ UNCHANGED <<python_cmd, raised>>
       ELSE /\ python_cmd' = r.cmd
            /\ pc' = "cleanup"
            /\ UNCHANGED <<raised, exit_code>>

\* everything check_python_version can hand back, over all the answers the
\* candidates can give
SpotdlResolutions == { SpotdlCheckPythonVersion(p) : p \in Assignments(SPOTDL) }
PyiResolutions ==
    UNION { { PyiCheckPythonVersion(<<first>> \o rest) :
                  rest \in [1..(Len(PyiPythonCmds) - 1) -> ProbeResults] } :
            first \in ProbeResults }
Resolutions(s) == IF s = SPOTDL THEN SpotdlResolutions ELSE PyiResolutions

CheckPython ==
    /\ pc = "start"
    /\ probes = <<>>
    /\ IF script = SPOTDL
       THEN \E cgroup \in Cgroups :
               LET ci == CheckCiEnvironment(ci_vars, cgroup) IN
                /\ ci_log' = ci.log
                /\ IF ci.exc # None
                   THEN /\ raised' = [exc |-> ci.exc, at |-> "check_ci_environment"]
                        /\ Exit(ci.exc)
                        /\ UNCHANGED <<resolution, python_cmd>>
                   ELSE \E r \in Resolutions(script) : AfterResolution(r)
       ELSE /\ UNCHANGED ci_log
            /\ \E r \in Resolutions(script) : AfterResolution(r)
    /\ UNCHANGED <<script, probes, pyiDisk, fetchVars, runs, ci_vars, env_exists,
                   env_bin, wrapper, entry_exists, artifact, venv_python,
                   venv_pip, idx, installed, cmds, symlink>>

\* cleanup_existing_installation(); build-spotdl.py then computes venv_python
\* and venv_pip from what is on disk at that moment
Cleanup ==
    /\ pc = "cleanup"
    /\ \E fs \in RmtreeOutcomes, left \in RemoveToolFiles(script, tool_files) :
          /\ tool_files' = left
          /\ env_exists' = fs.exists
          /\ env_bin' = fs.bin
          /\ wrapper' = fs.wrapper
          /\ IF script = SPOTDL
             THEN /\ venv_python' = ProbePath(fs.bin, "python3", "python")
                  /\ venv_pip' = ProbePath(fs.bin, "pip3", "pip")
                  /\ pc' = "create_venv"
             ELSE /\ pc' = "pyi_venv"
                  /\ UNCHANGED <<venv_python, venv_pip>>
    /\ idx' = 0
    /\ UNCHANGED <<script, probes, artifact_empty, artifact_exec, fetchVars, runs, ciVars, resolution, python_cmd, entry_exists, artifact,
                   installed, cmds, raised, symlink, exit_code>>

----------------------------------------------------------------------------
(* build-spotdl.py: main, the build steps inside try/except                *)

\* venv_commands, with python_cmd left out of the text
VenvCommands == <<"python -m venv --copies spotdl_env",
                  "python -m virtualenv spotdl_env",
                  "virtualenv spotdl_env">>

PipUpgrade == "pip install --upgrade pip"
PipUpgradeAlt == "python -m pip install --upgrade pip"
InstallSpotdlCmd == "pip install spotdl"
InstallYtdlpCmd == "pip install yt-dlp"
InstallYtdlpAlt1 == "python -m pip install yt-dlp"
InstallYtdlpAlt2 == "pip3 install yt-dlp --user"

max_retries == 3

\* the for loop over venv_commands after one run_command call: "break" on
\* success, the next command on failure, "if not venv_created" after the last
\* faulty variant: the break on success is missing
VenvLoopNoBreak(success, i) ==
    IF i + 1 < Len(VenvCommands) THEN "next"
    ELSE IF success THEN "created"
    ELSE "not created"
\* the loop as written
VenvLoop(success, i) ==
    IF success THEN "created"
    ELSE IF i + 1 < Len(VenvCommands) THEN "next"
    ELSE "not created"

\* "Verify venv was created": if not Path(venv_python).exists(): return False
\* faulty variant: the path is trusted without looking
VenvPythonAssumed(bin, python) == TRUE
\* the check as written
VenvPythonFound(bin, python) == PathExists(bin, python)

\* a failed attempt: "if attempt < max_retries - 1" sleeps and tries again,
\* else the loop ends with spotdl_installed False
\* faulty variant: one retry too many
RetryAgainOffByOne(attempt) == attempt < max_retries
\* the test as written
RetryAgain(attempt) == attempt < max_retries - 1

\* after the loop: if not spotdl_installed: return False
\* faulty variant: the failure is not surfaced
AfterInstallLoopUnchecked(spotdl_installed) == "install_ytdlp"
\* the check as written
AfterInstallLoop(spotdl_installed) ==
    IF spotdl_installed THEN "install_ytdlp" ELSE "return False"

\* a blocking call of a build step let an exception through
StepRaised(e) ==
    /\ raised' = [exc |-> e, at |-> pc]
    /\ Exit(BuildStepRaised(script, e))

\* for i, cmd in enumerate(venv_commands): one iteration, and when the loop
\* is left, "if not venv_created" and "if not Path(venv_python).exists()"
CreateVenv ==
    /\ pc = "create_venv"
    /\ \E o \in ChildOutcomes, b \in CreatedBins, d \in BOOLEAN :
         LET rc == RunCommand(o) IN
          /\ Issue(VenvCommands[idx + 1], rc)
          /\ env_bin' = b
          /\ env_exists' = (rc.success \/ env_exists \/ d \/ b # {})
          /\ IF rc.exc # None
             THEN StepRaised(rc.exc) /\ UNCHANGED idx
             ELSE IF VenvLoop(rc.success, idx) = "created"
             THEN /\ IF VenvPythonFound(b, venv_python)
                     THEN pc' = "upgrade_pip" /\ UNCHANGED exit_code
                     ELSE Exit("False")
                  /\ UNCHANGED <<idx, raised>>
             ELSE IF VenvLoop(rc.success, idx) = "next"
             THEN /\ idx' = idx + 1
                  /\ UNCHANGED <<pc, raised, exit_code>>
             ELSE /\ Exit("False")
                  /\ UNCHANGED <<idx, raised>>
    /\ UNCHANGED <<script, probes, pyiDisk, fetchVars, runs, ciVars, resolution, python_cmd, wrapper, entry_exists,
                   artifact, venv_python, venv_pip, installed, symlink>>

\* run_command(cmd) in a step that only moves on: to okpc on success, to
\* failpc on failure
PlainStep(cmd, okpc, failpc) ==
    /\ \E o \in ChildOutcomes :
         LET rc == RunCommand(o) IN
          /\ Issue(cmd, rc)
          /\ IF rc.exc # None
             THEN StepRaised(rc.exc)
             ELSE /\ pc' = (IF rc.success THEN okpc ELSE failpc)
                  /\ UNCHANGED <<raised, exit_code>>
    /\ UNCHANGED <<script, probes, pyiDisk, fetchVars, runs, ciVars, resolution, python_cmd, env_exists, env_bin,
                   wrapper, entry_exists, artifact, venv_python, venv_pip,
                   installed, symlink>>

\* run_command(cmd) in a step whose failure makes the function return False
FatalStep(cmd, okpc) ==
    /\ \E o \in ChildOutcomes :
         LET rc == RunCommand(o) IN
          /\ Issue(cmd, rc)
          /\ IF rc.exc # None
             THEN StepRaised(rc.exc)
             ELSE IF rc.success
             THEN pc' = okpc /\ UNCHANGED <<raised, exit_code>>
             ELSE Exit("False") /\ UNCHANGED raised

\* f"{venv_pip} install --upgrade pip"
UpgradePip ==
    /\ pc = "upgrade_pip"
    /\ PlainStep(PipUpgrade, "install_spotdl", "upgrade_pip_alt")
    /\ idx' = 0

\* f"{venv_python} -m pip install --upgrade pip"
\* faulty variant: a failed upgrade ends the run
UpgradePipAltFatal ==
    /\ pc = "upgrade_pip_alt"
    /\ FatalStep(PipUpgradeAlt, "install_spotdl")
    /\ idx' = 0
    /\ UNCHANGED <<script, probes, pyiDisk, fetchVars, runs, ciVars, resolution, python_cmd, env_exists, env_bin,
                   wrapper, entry_exists, artifact, venv_python, venv_pip,
                   installed, symlink>>
\* the step as written: its failure is a warning
UpgradePipAlt ==
    /\ pc = "upgrade_pip_alt"
    /\ PlainStep(PipUpgradeAlt, "install_spotdl", "install_spotdl")
    /\ idx' = 0

\* for attempt in range(max_retries): the run_command call of one attempt,
\* and "if not spotdl_installed: return False" when the loop is left
InstallSpotdl ==
    /\ pc = "install_spotdl"
    /\ \E o \in ChildOutcomes :
         LET rc == RunCommand(o) IN
          /\ Issue(InstallSpotdlCmd, rc)
          /\ IF rc.exc # None
             THEN StepRaised(rc.exc) /\ UNCHANGED installed
             ELSE IF rc.success
             THEN /\ installed' = TRUE
                  /\ pc' = AfterInstallLoop(TRUE)
                  /\ UNCHANGED <<raised, exit_code>>
             ELSE IF RetryAgain(idx)
             THEN /\ pc' = "retry_delay"
                  /\ UNCHANGED <<installed, raised, exit_code>>
             ELSE /\ IF AfterInstallLoop(installed) = "return False"
                     THEN Exit("False")
                     ELSE pc' = AfterInstallLoop(installed) /\ UNCHANGED exit_code
                  /\ UNCHANGED <<installed, raised>>
    /\ UNCHANGED <<script, probes, pyiDisk, fetchVars, runs, ciVars, resolution, python_cmd, env_exists, env_bin,
                   wrapper, entry_exists, artifact, venv_python, venv_pip,
                   idx, symlink>>

\* time.sleep(5), then the next attempt
RetryDelay ==
    /\ pc = "retry_delay"
    /\ \E o \in {"elapsed", "KeyboardInterrupt"} :
          IF o = "KeyboardInterrupt"
          THEN StepRaised(o) /\ UNCHANGED idx
          ELSE /\ idx' = idx + 1
               /\ pc' = "install_spotdl"
               /\ UNCHANGED <<raised, exit_code>>
    /\ UNCHANGED <<script, probes, pyiDisk, fetchVars, runs, ciVars, resolution, python_cmd, env_exists, env_bin,
                   wrapper, entry_exists, artifact, venv_python, venv_pip,
                   installed, cmds, symlink>>

\* f"{venv_pip} install yt-dlp"
InstallYtdlp ==
    /\ pc = "install_ytdlp"
    /\ PlainStep(InstallYtdlpCmd, "create_wrapper", "install_ytdlp_alt1")
    /\ UNCHANGED idx

\* f"{venv_python} -m pip install yt-dlp"
InstallYtdlpPythonPip ==
    /\ pc = "install_ytdlp_alt1"
    /\ PlainStep(InstallYtdlpAlt1, "create_wrapper", "install_ytdlp_alt2")
    /\ UNCHANGED idx

\* "pip3 install yt-dlp --user"; its failure is a warning
\* faulty variant: after the last method fails the first is tried again
InstallYtdlpSystemRetried ==
    /\ pc = "install_ytdlp_alt2"
    /\ PlainStep(InstallYtdlpAlt2, "create_wrapper", "install_ytdlp")
    /\ UNCHANGED idx
\* the step as written
InstallYtdlpSystem ==
    /\ pc = "install_ytdlp_alt2"
    /\ PlainStep(InstallYtdlpAlt2, "create_wrapper", "create_wrapper")
    /\ UNCHANGED idx

\* if not create_wrapper_script(wrapper_path): return False
CreateWrapper ==
    /\ pc = "create_wrapper"
    /\ \E written \in BOOLEAN :
          IF written
          THEN /\ wrapper' = "fresh"
               /\ env_exists' = TRUE
               /\ pc' = "symlink"
               /\ UNCHANGED exit_code
          ELSE /\ Exit("False")
               /\ UNCHANGED <<wrapper, env_exists>>
    /\ UNCHANGED <<script, probes, pyiDisk, fetchVars, runs, ciVars, resolution, python_cmd, env_bin, entry_exists,
                   artifact, venv_python, venv_pip, idx, installed, cmds, raised,
                   symlink>>

\* if Path(python3_path).exists() and not Path(python_link).exists():
\*     os.symlink("python3", python_link), an exception being a warning
CreateSymlink ==
    /\ pc = "symlink"
    /\ IF PathExists(env_bin, "python3") /\ ~PathExists(env_bin, "python")
       THEN \E linked \in BOOLEAN :
               /\ symlink' = (IF linked THEN "created" ELSE "failed")
               /\ env_bin' = (IF linked THEN env_bin \cup {"python"} ELSE env_bin)
       ELSE UNCHANGED <<symlink, env_bin>>
    /\ pc' = "verify"
    /\ UNCHANGED <<script, probes, pyiDisk, fetchVars, runs, ciVars, resolution, python_cmd, env_exists, wrapper,
                   entry_exists, artifact, venv_python, venv_pip, idx, installed,
                   cmds, raised, exit_code>>

\* "Verifying installation...": the wrapper and venv_python must exist
VerifyInstallation ==
    /\ pc = "verify"
    /\ IF wrapper # "absent" /\ PathExists(env_bin, venv_python)
       THEN Exit("True")
       ELSE Exit("False")
    /\ UNCHANGED <<script, probes, pyiDisk, fetchVars, runs, ciVars, resolution, python_cmd, env_exists, env_bin,
                   wrapper, entry_exists, artifact, venv_python, venv_pip,
                   idx, installed, cmds, raised, symlink>>

----------------------------------------------------------------------------
(* build-spotdl-pyinstaller.py: build_executable_with_pyinstaller and the  *)
(* verification in main.  The function has no try/except: a False it       *)
(* returns makes main return False, an exception goes to the __main__      *)
(* block.                                                                  *)

PyiVenvCmd == "python -m venv spotdl_env"
PyiInstallCmd == "pip install spotdl yt-dlp"
PyiInstallPyinstallerCmd == "pip install pyinstaller"
PyinstallerCmd == "python -m PyInstaller --onefile --name spotdl spotdl_entry.py"

\* run_command(f"{python_cmd} -m venv spotdl_env"), then the paths inside the
\* environment are probed and "if not venv_python.exists(): return False"
PyiCreateVenv ==
    /\ pc = "pyi_venv"
    /\ \E o \in ChildOutcomes, b \in CreatedBins, d \in BOOLEAN :
         LET rc == RunCommand(o) IN
          /\ Issue(PyiVenvCmd, rc)
          /\ env_bin' = b
          /\ env_exists' = (rc.success \/ env_exists \/ d \/ b # {})
          /\ IF rc.exc # None
             THEN StepRaised(rc.exc) /\ UNCHANGED <<venv_python, venv_pip>>
             ELSE IF ~rc.success
             THEN Exit("False") /\ UNCHANGED <<venv_python, venv_pip, raised>>
             ELSE /\ venv_python' = ProbePath(b, "python3", "python")
                  /\ venv_pip' = ProbePath(b, "pip3", "pip")
                  /\ IF VenvPythonFound(b, venv_python')
                     THEN pc' = "pyi_upgrade_pip" /\ UNCHANGED exit_code
                     ELSE Exit("False")
                  /\ UNCHANGED raised
    /\ UNCHANGED <<script, probes, pyiDisk, fetchVars, runs, ciVars, resolution, python_cmd, wrapper, entry_exists,
                   artifact, idx, installed, symlink>>

\* f"{venv_pip} install --upgrade pip"; its failure is a warning
PyiUpgradePip ==
    /\ pc = "pyi_upgrade_pip"
    /\ PlainStep(PipUpgrade, "pyi_install", "pyi_install")
    /\ UNCHANGED idx

\* f"{venv_pip} install spotdl yt-dlp"
PyiInstall ==
    /\ pc = "pyi_install"
    /\ FatalStep(PyiInstallCmd, "pyi_install_pyinstaller")
    /\ installed' = (pc' = "pyi_install_pyinstaller")
    /\ UNCHANGED <<script, probes, pyiDisk, fetchVars, runs, ciVars, resolution, python_cmd, env_exists, env_bin,
                   wrapper, entry_exists, artifact, venv_python, venv_pip,
                   idx, symlink>>

\* f"{venv_pip} install pyinstaller"
PyiInstallPyinstaller ==
    /\ pc = "pyi_install_pyinstaller"
    /\ FatalStep(PyiInstallPyinstallerCmd, "pyi_entry")
    /\ UNCHANGED <<script, probes, pyiDisk, fetchVars, runs, ciVars, resolution, python_cmd, env_exists, env_bin,
                   wrapper, entry_exists, artifact, venv_python, venv_pip,
                   idx, installed, symlink>>

\* create_pyinstaller_entry_point(entry_point_path), which reports a failure
\* as False, then output_dir.mkdir(parents=True, exist_ok=True), which raises
PyiCreateEntryPoint ==
    /\ pc = "pyi_entry"
    /\ \E o \in {"written", "not written", "mkdir raised"} :
          /\ entry_exists' = (IF o = "not written" THEN entry_exists ELSE TRUE)
          /\ IF o = "written"
             THEN pc' = "pyi_build" /\ UNCHANGED <<raised, exit_code>>
             ELSE IF o = "not written"
             THEN Exit("False") /\ UNCHANGED raised
             ELSE StepRaised("Exception")
    /\ UNCHANGED <<script, probes, pyiDisk, fetchVars, runs, ciVars, resolution, python_cmd, env_exists, env_bin,
                   wrapper, artifact, venv_python, venv_pip, idx, installed,
                   cmds, symlink>>

\* executable_path.exists(): the test both build_executable_with_pyinstaller
\* and main apply to binaries/spotdl/spotdl
ExecutableAssumed(a) == TRUE

ExecutableExists(a) == a # "absent"

\* what the packaging tool leaves at binaries/spotdl/spotdl: a new file, no
\* file, or the file that was there before the run
PackagedArtifacts == {"fresh", "absent", artifact}

\* the size and mode of what the packaging tool left
PackagedFiles ==
    { [state |-> a, empty |-> e, exec |-> x] :
          a \in PackagedArtifacts, e \in BOOLEAN, x \in BOOLEAN } \cap
    { f \in [state : {"fresh", "absent", "stale"}, empty : BOOLEAN, exec : BOOLEAN] :
          /\ f.state = "absent" => (~f.empty /\ ~f.exec)
          /\ f.state = "stale" => (f.empty = artifact_empty /\ f.exec = artifact_exec) }

\* what the packaging tool leaves of build/ and spotdl.spec: both when it
\* exits zero, nothing new when it could not be started, else what it got to
ToolFilesAfter(o) ==
    IF o = "exit0" THEN {ToolFiles}
    ELSE IF o = "OSError" THEN {tool_files}
    ELSE { t \in SUBSET ToolFiles : tool_files \subseteq t }

\* executable_path.chmod(0o755) inside try/except: a failure is a warning
Chmod(exec, chmod_ok) == IF chmod_ok THEN TRUE ELSE exec

\* run_command(PyInstaller ...); on failure return False; if the executable
\* is not there return False; chmod; unlink the entry point; return True
PyiBuild ==
    /\ pc = "pyi_build"
    /\ \E o \in ChildOutcomes, f \in PackagedFiles,
          chmod_ok \in BOOLEAN, unlinked \in BOOLEAN :
         LET rc == RunCommand(o) IN
          /\ Issue(PyinstallerCmd, rc)
          /\ tool_files' \in ToolFilesAfter(o)
          /\ artifact' = f.state
          /\ artifact_empty' = f.empty
          /\ IF rc.exc # None
             THEN /\ StepRaised(rc.exc)
                  /\ artifact_exec' = f.exec
                  /\ UNCHANGED entry_exists
             ELSE IF ~rc.success \/ ~ExecutableExists(f.state)
             THEN /\ Exit("False")
                  /\ artifact_exec' = f.exec
                  /\ UNCHANGED <<entry_exists, raised>>
             ELSE /\ artifact_exec' = Chmod(f.exec, chmod_ok)
                  /\ entry_exists' = (entry_exists /\ ~unlinked)
                  /\ pc' = "pyi_verify"
                  /\ UNCHANGED <<raised, exit_code>>
    /\ UNCHANGED <<script, probes, fetchVars, runs, ciVars, resolution, python_cmd, env_exists,
                   env_bin, wrapper, venv_python, venv_pip, idx, installed,
                   symlink>>

\* main: "Verifying build...": if not executable_path.exists(): return False;
\* the size is read with stat() and printed
PyiVerifyBuild ==
    /\ pc = "pyi_verify"
    /\ IF ExecutableExists(artifact) THEN Exit("True") ELSE Exit("False")
    /\ UNCHANGED <<script, probes, pyiDisk, fetchVars, runs, ciVars, resolution, python_cmd, env_exists, env_bin,
                   wrapper, entry_exists, artifact, venv_python, venv_pip,
                   idx, installed, cmds, raised, symlink>>

----------------------------------------------------------------------------
(* The two specifications                                                  *)

Next ==
    \/ CheckPython
    \/ Cleanup
    \/ CreateVenv
    \/ UpgradePip
    \/ UpgradePipAlt
    \/ InstallSpotdl
    \/ RetryDelay
    \/ InstallYtdlp
    \/ InstallYtdlpPythonPip
    \/ InstallYtdlpSystem
    \/ CreateWrapper
    \/ CreateSymlink
    \/ VerifyInstallation
    \/ PyiCreateVenv
    \/ PyiUpgradePip
    \/ PyiInstall
    \/ PyiInstallPyinstaller
    \/ PyiCreateEntryPoint
    \/ PyiBuild
    \/ PyiVerifyBuild

Spec == Init /\ [][Next]_vars

\* The interpreter resolvers alone, applied to every assignment of probe
\* results to the candidates.
InitResolver ==
    /\ script \in Scripts
    /\ probes \in Assignments(script)
    /\ ci_vars = NoCi
    /\ env_exists = FALSE
    /\ env_bin = {}
    /\ wrapper = "absent"
    /\ entry_exists = FALSE
    /\ artifact = "absent"
    /\ artifact_empty = FALSE
    /\ artifact_exec = FALSE
    /\ tool_files = {}
    /\ NoFetch
    /\ InitProcess

ApplyResolver ==
    /\ pc = "start"
    /\ probes # <<>>
    /\ AfterResolution(CheckPythonVersion(script, probes))
    /\ UNCHANGED <<script, probes, pyiDisk, fetchVars, runs, ciVars, env_exists, env_bin, wrapper, entry_exists,
                   artifact, venv_python, venv_pip, idx, installed, cmds, symlink>>

NextResolver == ApplyResolver

SpecResolver == InitResolver /\ [][NextResolver]_vars

\* The same script started again in the same directory after it exited.
MaxRuns == 2

\* a file the finished run wrote is an old file for the next run
Aged(f) == IF f = "fresh" THEN "stale" ELSE f

RunAgain ==
    /\ pc = "exited"
    /\ Len(runs) + 1 < MaxRuns
    /\ runs' = Append(runs, exit_code)
    /\ wrapper' = Aged(wrapper)
    /\ artifact' = Aged(artifact)
    /\ pc' = "start"
    /\ resolution' = NotResolved(0)
    /\ python_cmd' = None
    /\ venv_python' = None
    /\ venv_pip' = None
    /\ idx' = 0
    /\ installed' = FALSE
    /\ cmds' = <<>>
    /\ raised' = NoException
    /\ symlink' = None
    /\ exit_code' = NotExited
    /\ ci_log' = None
    /\ UNCHANGED <<script, probes, env_exists, env_bin, entry_exists, pyiDisk,
                   fetchVars, ci_vars>>

NextRuns ==
    \/ Next
    \/ RunAgain

SpecRuns == Init /\ [][NextRuns]_vars

\* The build scripts started in a clean directory under every setting of the
\* CI indicator variables.
InitCi ==
    /\ script \in Scripts
    /\ probes = <<>>
    /\ ci_vars \in (IF script = SPOTDL THEN SUBSET CiIndicators ELSE {NoCi})
    /\ InitFiles
    /\ ~env_exists
    /\ NoFetch
    /\ InitProcess

SpecCi == InitCi /\ [][Next]_vars

----------------------------------------------------------------------------
(* build-ytdlp-pyinstaller.py: fetch the yt-dlp release binary and test it *)

YTDLP == "build-ytdlp-pyinstaller.py"

Systems == {"darwin", "linux", "windows", "freebsd"}
Machines == {"x86_64", "amd64", "arm64", "armv7l", "aarch64", "i686"}

\* machine.startswith("arm")
StartsWithArm(m) == m \in {"arm64", "armv7l"}

PlatformInfo(name) == [exc |-> None, binary_name |-> name]

\* get_platform_info()
GetPlatformInfo(sys, m) ==
    IF sys = "darwin" THEN PlatformInfo("yt-dlp_macos")
    ELSE IF sys = "linux"
    THEN IF m \in {"x86_64", "amd64"} THEN PlatformInfo("yt-dlp_linux")
         ELSE IF StartsWithArm(m) THEN PlatformInfo("yt-dlp_linux_armv7l")
         ELSE PlatformInfo("yt-dlp_linux_" \o m)
    ELSE IF sys = "windows"
    THEN IF m \in {"x86_64", "amd64"} THEN PlatformInfo("yt-dlp.exe")
         ELSE PlatformInfo("yt-dlp_" \o m \o ".exe")
    ELSE [exc |-> "ValueError", binary_name |-> None]

\* run_command of this script: TimeoutExpired and CalledProcessError are
\* caught, there is no "except Exception"
YtdlpRunCommand(o) ==
    IF o \in {"KeyboardInterrupt", "OSError"} THEN [success |-> FALSE, exc |-> o]
    ELSE [success |-> (o = "exit0"), exc |-> None]

\* f'"{binary_path}" --version'
VersionCmd(f) == f \o " --version"

\* the status of a process that ends with an uncaught exception: 1 with a
\* traceback; an uncaught KeyboardInterrupt ends it with 1 or, where the
\* interpreter re-delivers SIGINT to itself, with 130
UncaughtStatuses(e) == IF e = "KeyboardInterrupt" THEN {1, 130} ELSE {1}

\* no handler in main or at module level: sys.exit(main()) is never reached
FetchUncaught(e) ==
    /\ raised' = [exc |-> e, at |-> pc]
    /\ pc' = "exited"
    /\ exit_code' \in UncaughtStatuses(e)

\* what can already be in binaries/ytdlp when the script starts
PriorBinaries == {"yt-dlp_macos", "yt-dlp_linux", "yt-dlp.exe"}

InitFetch ==
    /\ script = YTDLP
    /\ pc = "fetch_download"
    /\ system \in Systems
    /\ machine \in Machines
    /\ ytdlp_dir \in SUBSET PriorBinaries
    /\ binary_name = None
    /\ urlopened = FALSE
    /\ downloaded = "nothing"
    /\ verified = None
    /\ probes = <<>>
    /\ ci_vars = NoCi
    /\ env_exists = FALSE
    /\ env_bin = {}
    /\ wrapper = "absent"
    /\ entry_exists = FALSE
    /\ artifact = "absent"
    /\ artifact_empty = FALSE
    /\ artifact_exec = FALSE
    /\ tool_files = {}
    /\ InitLocals

\* how the try block of download_binary can end
DownloadOutcomes(sys) ==
    {"downloaded", "urlopen raised", "copyfileobj raised", "KeyboardInterrupt"}
        \cup (IF sys # "windows" THEN {"chmod raised"} ELSE {})

\* main: if not download_binary(): return 1
DownloadBinary ==
    /\ pc = "fetch_download"
    /\ LET info == GetPlatformInfo(system, machine) IN
        IF info.exc # None
        THEN /\ Exit("False")
             /\ UNCHANGED <<binary_name, urlopened, downloaded, ytdlp_dir, raised>>
        ELSE /\ binary_name' = info.binary_name
             /\ \E mkdir_ok \in BOOLEAN, o \in DownloadOutcomes(system) :
                   IF ~mkdir_ok
                   THEN /\ FetchUncaught("OSError")
                        /\ UNCHANGED <<urlopened, downloaded, ytdlp_dir>>
                   ELSE /\ urlopened' = TRUE
                        /\ downloaded' = (IF o = "urlopen raised" THEN "nothing"
                                          ELSE IF o \in {"downloaded", "chmod raised"}
                                          THEN "complete"
                                          ELSE "partial")
                        /\ ytdlp_dir' = (IF o = "urlopen raised" THEN ytdlp_dir
                                         ELSE ytdlp_dir \cup {info.binary_name})
                        /\ IF o = "KeyboardInterrupt" THEN FetchUncaught(o)
                           ELSE IF o = "downloaded"
                           THEN pc' = "fetch_verify" /\ UNCHANGED <<raised, exit_code>>
                           ELSE Exit("False") /\ UNCHANGED raised
    /\ UNCHANGED <<script, system, machine, verified, cmds, runs, ciVars,
                   buildVars>>

\* faulty variant: a binary that fails the test is removed again
VerifyBinaryDiscarding ==
    /\ pc = "fetch_verify"
    /\ ytdlp_dir # {}
    /\ \E first \in ytdlp_dir, o \in ChildOutcomes :
          LET rc == YtdlpRunCommand(o) IN
           /\ verified' = first
           /\ Issue(VersionCmd(first), rc)
           /\ ytdlp_dir' = (IF rc.success THEN ytdlp_dir ELSE ytdlp_dir \ {first})
           /\ IF rc.exc # None THEN FetchUncaught(rc.exc)
              ELSE IF rc.success THEN Exit("True") /\ UNCHANGED raised
              ELSE Exit("False") /\ UNCHANGED raised
    /\ UNCHANGED <<script, system, machine, binary_name, urlopened, downloaded,
                   runs, ciVars, buildVars>>

\* main: if not verify_binary(): return 1; return 0.  glob() lists the
\* directory in the order the file system hands the entries out
VerifyBinary ==
    /\ pc = "fetch_verify"
    /\ IF ytdlp_dir = {}
       THEN Exit("False") /\ UNCHANGED <<verified, cmds, raised>>
       ELSE \E first \in ytdlp_dir, o \in ChildOutcomes :
              LET rc == YtdlpRunCommand(o) IN
               /\ verified' = first
               /\ Issue(VersionCmd(first), rc)
               /\ IF rc.exc # None THEN FetchUncaught(rc.exc)
                  ELSE IF rc.success THEN Exit("True") /\ UNCHANGED raised
                  ELSE Exit("False") /\ UNCHANGED raised
    /\ UNCHANGED <<script, system, machine, ytdlp_dir, binary_name, urlopened,
                   downloaded, runs, ciVars, buildVars>>

NextFetch ==
    \/ DownloadBinary
    \/ VerifyBinary

SpecFetch == InitFetch /\ [][NextFetch]_vars

----------------------------------------------------------------------------
(* Vocabulary of the properties                                            *)

Exited == pc = "exited"

\* the log entries of the commands in S, in the order they were issued
Issued(S) == SelectSeq(cmds, LAMBDA e : e.cmd \in S)

AllFailed(log) == \A i \in 1..Len(log) : log[i].result = "failed"

\* log holds the first Len(log) commands of chain, in order, each issued
\* after the one before it failed
FallbackChain(log, chain) ==
    /\ Len(log) <= Len(chain)
    /\ \A i \in 1..Len(log) : log[i].cmd = chain[i]
    /\ \A i \in 1..Len(log) : i < Len(log) => log[i].result = "failed"

CreationCmds == {VenvCommands[i] : i \in 1..Len(VenvCommands)} \cup {PyiVenvCmd}

EnvironmentCreated == \E i \in 1..Len(cmds) :
                          cmds[i].cmd \in CreationCmds /\ cmds[i].result = "ok"

\* the probe result r is a version the script accepts
Qualifies(r, min_minor) ==
    /\ r.kind = "completed"
    /\ r.returncode = 0
    /\ LET v == ParseVersion(r.stdout) IN
          v.status = "ok" /\ VersionAccepted(v.major, v.minor, min_minor)

\* the probe result r is one the resolver is to skip
Skippable(r) ==
    \/ r.kind \in {"FileNotFoundError", "TimeoutExpired"}
    \/ r.kind = "completed" /\ r.returncode = 0 /\ ParseVersion(r.stdout).status # "ok"

NobodyInterrupts == \A i \in DOMAIN probes : probes[i].kind # "KeyboardInterrupt"

EveryProbeCompletes == \A i \in DOMAIN probes : probes[i].kind = "completed"

Least(S) == CHOOSE i \in S : \A j \in S : i <= j

----------------------------------------------------------------------------
(* Properties                                                              *)

\* C1 (as claimed): build-spotdl.py, check_python_version returns the first
\* candidate in list order whose version meets the minimum, and fails only
\* when no candidate meets it.  Stated here for the assignments in which
\* every candidate runs to completion, where it is already violated: the
\* loop stops at the first candidate that exits zero and judges only that one.
C1_FirstQualifyingCandidate ==
    (script = SPOTDL /\ pc # "start" /\ EveryProbeCompletes) =>
        LET good == { i \in DOMAIN probes : Qualifies(probes[i], SpotdlMinMinor) } IN
            IF good = {} THEN resolution.cmd = None
            ELSE resolution.cmd = SpotdlPythonCmds[Least(good)]

\* C2 (as claimed): in both resolvers a candidate that fails to spawn, times
\* out or prints an unparseable version is skipped: when only such candidates
\* come before a candidate that meets the minimum, that candidate is returned.
\* Violated: a timeout ends either resolver, and unparseable output ends the
\* one of build-spotdl.py.
C2_FailedCandidatesSkipped ==
    (pc # "start" /\ NobodyInterrupts) =>
        \A j \in DOMAIN probes :
            ( /\ Qualifies(probes[j], MinMinor(script))
              /\ \A i \in 1..(j - 1) : Skippable(probes[i]) )
            => resolution.cmd = PythonCmds(script)[j]

\* the fatal phases of a run all succeeded
AllPhasesSucceeded ==
    /\ resolution.cmd # None /\ python_cmd = resolution.cmd
    /\ EnvironmentCreated
    /\ PathExists(env_bin, venv_python)
    /\ installed
    /\ raised = NoException
    /\ IF script = SPOTDL
       THEN wrapper = "fresh" /\ Issued({InstallSpotdlCmd})[Len(Issued({InstallSpotdlCmd}))].result = "ok"
       ELSE artifact # "absent" /\ Issued({PyiInstallCmd, PyiInstallPyinstallerCmd, PyinstallerCmd}) =
                <<[cmd |-> PyiInstallCmd, result |-> "ok"],
                  [cmd |-> PyiInstallPyinstallerCmd, result |-> "ok"],
                  [cmd |-> PyinstallerCmd, result |-> "ok"]>>

\* C3: a process exits with status 0 only if every fatal phase succeeded and
\* no exception was raised; every other run ends with a non-zero status.
C3_ExitZeroOnlyOnSuccess ==
    Exited => /\ exit_code \in {0, 1, 130}
              /\ exit_code = 0 <=> AllPhasesSucceeded

C3_Witness ==
    /\ Exited /\ exit_code = 0
    /\ script = PYINSTALLER
    /\ artifact = "fresh"

\* C4 (as claimed): a KeyboardInterrupt during a blocking step ends the
\* process with status 130.  Violated: main of build-spotdl.py catches it
\* inside its try block and returns False, so the process exits with 1.
C4_InterruptExits130 ==
    (Exited /\ raised.exc = "KeyboardInterrupt") => exit_code = 130

\* C5: build-spotdl.py tries the creation strategies in the fixed order, each
\* at most once and only after the earlier ones failed, none after a success;
\* when all three fail the run ends with status 1 and no other command was
\* issued.
C5_CreationStrategiesInOrder ==
    script = SPOTDL =>
        LET tried == Issued(CreationCmds) IN
            /\ FallbackChain(tried, VenvCommands)
            /\ tried = SubSeq(cmds, 1, Len(tried))
            /\ (Len(tried) = Len(VenvCommands) /\ AllFailed(tried)) =>
                   (Exited /\ exit_code = 1 /\ cmds = tried)

C5_Witness ==
    /\ script = SPOTDL
    /\ Len(cmds) = 3
    /\ AllFailed(cmds)
    /\ Exited /\ exit_code = 1

\* C6: once environment creation has reported success, a downstream command
\* is issued only if the resolved interpreter path exists; if it does not
\* exist the run ends there with status 1, the creation command being the
\* last command it issued.
C6_NoCommandWithoutInterpreter ==
    /\ (\E i \in 1..Len(cmds) : cmds[i].cmd \notin CreationCmds) =>
           (EnvironmentCreated /\ PathExists(env_bin, venv_python))
    /\ (EnvironmentCreated /\ ~PathExists(env_bin, venv_python)) =>
           /\ Exited /\ exit_code = 1
           /\ cmds[Len(cmds)].cmd \in CreationCmds

C6_Witness ==
    /\ EnvironmentCreated
    /\ ~PathExists(env_bin, venv_python)
    /\ Exited /\ exit_code = 1

SpotdlTries == Issued({InstallSpotdlCmd})

\* C7: build-spotdl.py makes at most 3 attempts to install spotdl, each after
\* the one before it failed and none after a success; the failure is surfaced
\* (return False after the loop) only when exactly 3 attempts have failed.
C7_SpotdlAttempts ==
    script = SPOTDL =>
        /\ Len(SpotdlTries) <= max_retries
        /\ \A k \in 1..Len(SpotdlTries) :
               /\ k < Len(SpotdlTries) => SpotdlTries[k].result = "failed"
               /\ SpotdlTries[k].result = "ok" => installed
        /\ ( /\ Exited /\ raised = NoException
             /\ Len(cmds) > 0 /\ cmds[Len(cmds)].cmd = InstallSpotdlCmd )
           => (Len(SpotdlTries) = max_retries /\ AllFailed(SpotdlTries))

C7_Witness ==
    /\ script = SPOTDL
    /\ Len(SpotdlTries) = 3
    /\ SpotdlTries[3].result = "ok"
    /\ Exited /\ exit_code = 0

YtdlpMethods == <<InstallYtdlpCmd, InstallYtdlpAlt1, InstallYtdlpAlt2>>
YtdlpTries == Issued({YtdlpMethods[i] : i \in 1..Len(YtdlpMethods)})

SpotdlRetriesExhausted ==
    /\ script = SPOTDL
    /\ Len(SpotdlTries) = max_retries
    /\ AllFailed(SpotdlTries)

\* C8: once all attempts to install spotdl have failed, build-spotdl.py has
\* ended with status 1 without installing yt-dlp, writing the wrapper script
\* or creating the symlink, and it takes no further step.
C8_ExhaustedRetriesAbort ==
    /\ [](SpotdlRetriesExhausted =>
            /\ Exited /\ exit_code = 1
            /\ YtdlpTries = <<>>
            /\ wrapper # "fresh"
            /\ symlink = None)
    /\ [][~SpotdlRetriesExhausted]_vars

C8_Witness ==
    /\ SpotdlRetriesExhausted
    /\ Exited /\ exit_code = 1

\* C9 (as claimed): at most two install commands are issued for yt-dlp.
\* Violated: after the first failure two more methods are tried.
C9_YtdlpAtMostOneRetry ==
    script = SPOTDL => Len(YtdlpTries) <= 2

\* C9 (amended): at most three install commands are issued for yt-dlp, one
\* per installation method, in the order venv pip, python -m pip, pip3
\* --user, each only after the one before it failed; after the third failure
\* the run goes on to the wrapper script.
C9_YtdlpAtMostThreeMethods ==
    script = SPOTDL =>
        /\ FallbackChain(YtdlpTries, YtdlpMethods)
        /\ (Len(YtdlpTries) = Len(YtdlpMethods) /\ AllFailed(YtdlpTries)) =>
               pc \in {"create_wrapper", "symlink", "verify", "exited"}

C9_Witness ==
    /\ script = SPOTDL
    /\ Len(YtdlpTries) = 3
    /\ AllFailed(YtdlpTries)
    /\ pc = "create_wrapper"

RecoverableSteps == {"upgrade_pip", "upgrade_pip_alt", "install_ytdlp",
                     "install_ytdlp_alt1", "install_ytdlp_alt2", "symlink"}

PipUpgradeTries == Issued({PipUpgrade, PipUpgradeAlt})

\* C10: in build-spotdl.py no recoverable step (pip upgrade, yt-dlp install,
\* symlink) ends the run unless it is interrupted, and a run in which every
\* other step succeeded exits with status 0.
C10_RecoverableFailuresTolerated ==
    /\ [][(script = SPOTDL /\ pc \in RecoverableSteps /\ raised' = raised)
              => pc' # "exited"]_vars
    /\ []((/\ script = SPOTDL /\ Exited
           /\ resolution.cmd # None
           /\ EnvironmentCreated
           /\ PathExists(env_bin, venv_python)
           /\ installed
           /\ wrapper = "fresh"
           /\ raised = NoException) => exit_code = 0)

C10_Witness ==
    /\ script = SPOTDL
    /\ Exited /\ exit_code = 0
    /\ Len(PipUpgradeTries) = 2 /\ AllFailed(PipUpgradeTries)
    /\ Len(YtdlpTries) = 3 /\ AllFailed(YtdlpTries)
    /\ symlink = "failed"

----------------------------------------------------------------------------
(* C11: whenever binaries/spotdl/spotdl is absent after the packaging tool
   was invoked, the packaging run reports failure (a non-zero exit status),
   also when the tool invocation itself reported success. *)

PackagingToolRan == Issued({PyinstallerCmd}) # <<>>

PackagingToolSucceeded ==
    /\ PackagingToolRan
    /\ Issued({PyinstallerCmd})[1].result = "ok"

C11_MissingArtifactFails ==
    (script = PYINSTALLER /\ Exited /\ PackagingToolRan /\ artifact = "absent")
        => exit_code # 0

C11_Witness ==
    /\ script = PYINSTALLER
    /\ Exited
    /\ PackagingToolSucceeded
    /\ artifact = "absent"
    /\ exit_code = 1

----------------------------------------------------------------------------
(* C12: on every return path of build_executable_with_pyinstaller taken
   after spotdl_entry.py was written, the entry script has been deleted by
   the time the function returns.  Stated here for the two failure returns
   (the packaging tool failed, or its output is missing), where the file
   system refused nothing. *)

\* build_executable_with_pyinstaller returned False after the tool ran
PackagingReturnedFalse ==
    /\ script = PYINSTALLER
    /\ Exited
    /\ PackagingToolRan
    /\ raised.exc = None
    /\ (Issued({PyinstallerCmd})[1].result = "failed" \/ artifact = "absent")

C12_EntryScriptDeletedOnEveryReturn == PackagingReturnedFalse => ~entry_exists

----------------------------------------------------------------------------
(* C13: the packaging run reports success only if binaries/spotdl/spotdl
   exists, is non-empty and has its executable bit set; a failure of any of
   the three verifications makes the run fail. *)

C13_SuccessOnlyIfArtifactVerified ==
    (script = PYINSTALLER /\ Exited /\ exit_code = 0)
        => (artifact # "absent" /\ ~artifact_empty /\ artifact_exec)

----------------------------------------------------------------------------
(* C14: for every (os, arch) pair that is not an entry of the mapping table
   of get_platform_info, the fetch fails as an unsupported platform: no
   artifact name is constructed and urlopen is never called. *)

\* the pairs get_platform_info maps to a literal artifact name
MappingTable ==
    ({"darwin"} \X Machines)
        \cup ({"linux"} \X {m \in Machines : m \in {"x86_64", "amd64"} \/ StartsWithArm(m)})
        \cup ({"windows"} \X {"x86_64", "amd64"})

C14_UnmappedPlatformFailsFast ==
    (script = YTDLP /\ <<system, machine>> \notin MappingTable)
        => (binary_name = None /\ ~urlopened /\ (Exited => exit_code = 1))

----------------------------------------------------------------------------
(* C15: the fetch reports success (exit status 0) only if the binary this
   run downloaded was the one invoked with --version and that invocation
   exited zero, whatever binaries/ytdlp held before the run. *)

C15_SuccessOnlyIfDownloadVerified ==
    (script = YTDLP /\ Exited /\ exit_code = 0)
        => /\ downloaded = "complete"
           /\ verified = binary_name
           /\ cmds = <<[cmd |-> VersionCmd(binary_name), result |-> "ok"]>>

----------------------------------------------------------------------------
(* C16: build-spotdl.py run twice in a row in the same directory, the
   external commands succeeding both times, succeeds both times: what a run
   left behind never makes the next run fail.  Every failing exit of a run,
   the second included, follows from something that went wrong in that run
   itself: no interpreter resolved, a command that failed, a created
   environment without bin/python, a wrapper script that could not be
   written, or an exception. *)

\* the step just taken ended the run with a failure status
RunFails == pc # "exited" /\ pc' = "exited" /\ exit_code' # 0

\* what went wrong in the step just taken
FailedInThisRun ==
    \/ pc = "start" /\ resolution'.cmd = None
    \/ cmds' # cmds /\ cmds'[Len(cmds')].result # "ok"
    \/ pc = "create_venv" /\ ~PathExists(env_bin', "python")
    \/ pc = "create_wrapper" /\ wrapper' # "fresh"
    \/ raised' # raised

C16_LeftoversNeverFailARun ==
    [][(script = SPOTDL /\ RunFails) => FailedInThisRun]_vars

C16_Witness ==
    /\ script = SPOTDL
    /\ runs = <<0>>
    /\ env_exists /\ wrapper = "fresh"
    /\ Exited /\ exit_code = 0

----------------------------------------------------------------------------
(* C17: run_command never lets an exception through to its caller: for
   every outcome of the child process (failure to spawn, timeout, non-zero
   exit, zero exit) it returns a pair, so every command in the log ended as
   "ok" or "failed".  Only an interrupt by the user, which is no outcome of
   the child, is left aside. *)

C17_RunCommandNeverRaises ==
    \A i \in 1..Len(cmds) : cmds[i].result \in {"ok", "failed", "KeyboardInterrupt"}

----------------------------------------------------------------------------
(* C18: every interpreter a resolver returns reported a version with
   major == 3 and minor >= the minimum of its script, whatever version
   string the candidates emit. *)

\* the version the returned candidate printed
ReturnedVersion == ParseVersion(probes[resolution.probed].stdout)

ResolverReturned == pc # "start" /\ resolution.cmd # None

C18_ReturnedMajorIsThree ==
    ResolverReturned
        => /\ ReturnedVersion.status = "ok"
           /\ ReturnedVersion.major = 3
           /\ ReturnedVersion.minor >= MinMinor(script)

\* (major, minor) >= (3, min_minor), major compared first and then minor
AtLeast(major, minor, min_minor) == major > 3 \/ (major = 3 /\ minor >= min_minor)

(* C18 without the upper limit on the major version: the returned
   interpreter reported a version that is at least 3.MIN, major compared
   first and then minor (MIN is 10 for build-spotdl.py, 8 for
   build-spotdl-pyinstaller.py). *)
C18_ReturnedVersionAccepted ==
    ResolverReturned
        => /\ ReturnedVersion.status = "ok"
           /\ AtLeast(ReturnedVersion.major, ReturnedVersion.minor, MinMinor(script))

C18_Witness ==
    /\ ResolverReturned
    /\ ReturnedVersion.major = 4
    /\ ReturnedVersion.minor = 12

----------------------------------------------------------------------------
(* C19: when a packaging run ends, successful or not, none of its transient
   files is left: spotdl_entry.py, build/ and spotdl.spec are all absent at
   process exit. *)

C19_NoTransientFileAtExit ==
    (script = PYINSTALLER /\ Exited /\ PackagingToolRan)
        => (~entry_exists /\ tool_files = {})

----------------------------------------------------------------------------
(* C20: the CI indicator variables never change the control flow of
   build-spotdl.py.  check_ci_environment is the only reader of them; the
   step that calls it goes on to the interpreter check or ends the run in
   the same way under every setting of the variables and every content of
   /proc/1/cgroup, so two runs that differ only in these variables issue
   the same commands and exit with the same status; and no run ends inside
   check_ci_environment, with no variable set in particular. *)

EndedInCiCheck == raised.at = "check_ci_environment"

----------------------------------------------------------------------------
(* C21: when the download succeeded and the verification command did not
   exit zero, the fetch ends with exit status 1 and the downloaded file is
   still on disk as the download wrote it: no step after the download
   deletes or rewrites a file of binaries/ytdlp. *)

VerificationFailed ==
    /\ script = YTDLP
    /\ Exited
    /\ Len(cmds) = 1 /\ cmds[1].result = "failed"

C21_FailedVerificationKeepsFile ==
    /\ [](VerificationFailed
            => /\ exit_code = 1
               /\ downloaded = "complete"
               /\ binary_name \in ytdlp_dir)
    /\ [][pc = "fetch_verify" => UNCHANGED <<ytdlp_dir, downloaded, binary_name>>]_vars

C21_Witness ==
    /\ VerificationFailed
    /\ verified = binary_name
    /\ binary_name \in ytdlp_dir
    /\ exit_code = 1

----------------------------------------------------------------------------
(* C22: in build-spotdl.py the interpreter and installer paths that the
   commands after environment creation use are the result of probing the
   created environment: bin/python3 if it is there and bin/python otherwise,
   bin/pip3 if it is there and bin/pip otherwise. *)

\* the environment was created and checked, no later step has run yet
EnvironmentJustCreated == script = SPOTDL /\ pc = "upgrade_pip"

C22_PathsProbedAfterCreation ==
    EnvironmentJustCreated
        => /\ venv_python = ProbePath(env_bin, "python3", "python")
           /\ venv_pip = ProbePath(env_bin, "pip3", "pip")

----------------------------------------------------------------------------
(* C23: in every run of build-spotdl.py that reaches environment creation,
   the directory spotdl_env does not exist when the first creation strategy
   is invoked, whatever the outcome of the removal attempt. *)

\* cleanup is over and the first creation command is about to be issued
BeforeFirstStrategy == script = SPOTDL /\ pc = "create_venv" /\ idx = 0 /\ cmds = <<>>

C23_NoEnvironmentBeforeCreation == BeforeFirstStrategy => ~env_exists

----------------------------------------------------------------------------
(* C24: in build-spotdl.py, when a creation strategy produced an environment
   that contains bin/python3 but not bin/python, the run goes on (to the
   step that links bin/python to python3, and to success): it does not end
   at the creation step. *)

\* the last command issued is a creation strategy, and it succeeded
CreationSucceededLast ==
    /\ cmds # <<>>
    /\ cmds[Len(cmds)].cmd \in CreationCmds
    /\ cmds[Len(cmds)].result = "ok"

C24_VersionedBinaryAloneGoesOn ==
    (script = SPOTDL /\ CreationSucceededLast
        /\ PathExists(env_bin, "python3") /\ ~PathExists(env_bin, "python"))
        => ~Exited

----------------------------------------------------------------------------
(* C25: in build-spotdl-pyinstaller.py a failed installation of spotdl is
   retried, up to 3 attempts in total: a run that ended because the install
   command failed has issued that command 3 times. *)

PyiInstallTries == Issued({PyiInstallCmd})

PyiInstallEndedRun ==
    /\ script = PYINSTALLER
    /\ Exited
    /\ cmds # <<>>
    /\ cmds[Len(cmds)] = [cmd |-> PyiInstallCmd, result |-> "failed"]

C25_PyiInstallRetried == PyiInstallEndedRun => Len(PyiInstallTries) = max_retries

----------------------------------------------------------------------------
(* C26: in both resolvers a parsed version is accepted exactly when
   (major, minor) >= (3, MIN), major compared first and then minor.  Stated
   on the first candidate: when it exits zero with a version that parses, it
   is the candidate returned exactly when its version is at least 3.MIN. *)

FirstVersion == ParseVersion(probes[1].stdout)

FirstCandidateParsed ==
    /\ pc # "start"
    /\ probes[1].kind = "completed"
    /\ probes[1].returncode = 0
    /\ FirstVersion.status = "ok"

C26_AcceptedIffAtLeastMinimum ==
    FirstCandidateParsed
        => (resolution.cmd = PythonCmds(script)[1]
                <=> AtLeast(FirstVersion.major, FirstVersion.minor, MinMinor(script)))

----------------------------------------------------------------------------
(* C27: in build-spotdl-pyinstaller.py, when no probe times out (and nobody
   interrupts), check_python_version returns the first candidate in list
   order that exits zero with a version of at least 3.8, candidates below
   the minimum being passed over, and returns None exactly when there is no
   such candidate. *)

NoProbeTimesOut ==
    \A i \in DOMAIN probes : probes[i].kind \notin {"TimeoutExpired", "KeyboardInterrupt"}

\* the candidates that exit zero with a version of at least 3.min_minor
MeetingMinimum(min_minor) ==
    { i \in DOMAIN probes :
        /\ probes[i].kind = "completed"
        /\ probes[i].returncode = 0
        /\ LET v == ParseVersion(probes[i].stdout) IN
              v.status = "ok" /\ AtLeast(v.major, v.minor, min_minor) }

C27_PyiFirstMeetingMinimum ==
    (script = PYINSTALLER /\ pc # "start" /\ NoProbeTimesOut)
        => IF MeetingMinimum(PyiMinMinor) = {}
           THEN resolution.cmd = None
           ELSE resolution.cmd = PyiPythonCmds[Least(MeetingMinimum(PyiMinMinor))]

----------------------------------------------------------------------------
(* C28: across consecutive packaging runs in one working directory, a run
   reports success only if binaries/spotdl/spotdl was written by the
   packaging tool invocation of that run: an artifact an earlier run left is
   never what makes the existence check pass. *)

LaterPackagingRunSucceeded ==
    /\ script = PYINSTALLER
    /\ runs # <<>>
    /\ Exited
    /\ exit_code = 0

C28_SuccessOnlyWithOwnArtifact == LaterPackagingRunSucceeded => artifact = "fresh"

====
